---- MODULE Spec2Model ----
(***************************************************************************)
(* Raju's Royal Artifacts: the session-scoped conversation agent           *)
(* (agentic_app/backend/agent.py), its HTTP boundary                       *)
(* (agentic_app/backend/main.py) and the inventory tools                   *)
(* (agentic_app/backend/tools.py).                                         *)
(*                                                                         *)
(* The endpoints are plain `def` handlers, which the framework runs on     *)
(* worker threads: several handlers can be inside RajuAgent at once, and   *)
(* a thread switch can fall between any two accesses of the shared         *)
(* dictionary chat_sessions or of a history list.  Every access of shared  *)
(* state is therefore one step of a thread; the computation local to a     *)
(* thread is folded into the step that follows it.                         *)
(*                                                                         *)
(* Python strings are TLA+ strings; a Python list object is an address     *)
(* into heap, so that two references to one list, and a list that is no    *)
(* longer in the dictionary, are what they are in the program.             *)
(***************************************************************************)
EXTENDS Integers, Sequences, FiniteSets, TLC

VARIABLES
    chat_sessions,       \* RajuAgent.chat_sessions: session id -> address of its history list
    heap,                \* the list objects: heap[a] is the sequence of turns of list a
    pc,                  \* per thread: where it stands
    op,                  \* per thread: the operation it runs ("chat", "get", "clear", "none")
    session_id,          \* per thread: the session_id argument
    user_message,        \* per thread: the user_message argument of chat
    history,             \* per thread: chat's local `history` (an address, 0 before it is set)
    messages,            \* per thread: chat's local `messages`
    assistant_response,  \* per thread: chat's local `assistant_response`
    ret,                 \* the value the most recently finished operation returned
    calls,               \* per session: the <<text, reply>> of the chat calls that succeeded
                         \* since the session's entry was last created (history variable)
    tool                 \* the most recent tool invocation and its output

vars == <<chat_sessions, heap, pc, op, session_id, user_message, history, messages,
          assistant_response, ret, calls, tool>>

agentVars == <<chat_sessions, heap, pc, op, session_id, user_message, history, messages,
               assistant_response, ret, calls>>

----------------------------------------------------------------------------
(* Bounds *)

\* chat calls whose turns the lists may come to hold, over one run
MaxCalls == 2

\* history lists created over one run
MaxLists == 2

\* the largest discount percent asked of calculate_discount
MaxPercent == 15

Threads == {"t1", "t2"}

\* values str(uuid.uuid4()) takes
UuidPool == {"uuid-1"}

\* session ids a client supplies: one of its own making, one a response handed it
SessionIds == {"s1"} \cup UuidPool

\* request.session_id: absent (<<>>), or a string, which may be empty
SessionIdInputs == {<<>>, <<"">>} \cup {<<s>> : s \in SessionIds}

\* request.message
MessageInputs == {"", "  ", "hi", " lamp? "}

\* request.message where handlers run concurrently: one text that passes the
\* validation is enough there, the interleavings are what varies
ConcurrentMessageInputs == {"", "  ", "hi"}

\* texts the completion engine returns
Replies == {"Namaste!"}

\* str(e) of what the completion engine raises
EngineErrors == {"timeout"}

----------------------------------------------------------------------------
(* Strings *)

Whitespace == {" ", "\t", "\n", "\r"}

RECURSIVE LStrip(_)
LStrip(s) ==
    IF Len(s) > 0 /\ SubSeq(s, 1, 1) \in Whitespace
    THEN LStrip(SubSeq(s, 2, Len(s)))
    ELSE s

RECURSIVE RStrip(_)
RStrip(s) ==
    IF Len(s) > 0 /\ SubSeq(s, Len(s), Len(s)) \in Whitespace
    THEN RStrip(SubSeq(s, 1, Len(s) - 1))
    ELSE s

\* str.strip()
Strip(s) == RStrip(LStrip(s))

\* k in s, for Python strings
Contains(k, s) ==
    \E i \in 1..(Len(s) - Len(k) + 1) : SubSeq(s, i, i + Len(k) - 1) = k

----------------------------------------------------------------------------
(* agent.py *)

RAJU_SYSTEM_PROMPT ==
    "You are Raju, a charming Indian shopkeeper.\n\nINVENTORY:\n- Brass Lamp: 50 coins\n- Silk Scarf: 500 coins\n- Sandalwood Carving: 1000 coins\n- Taj Mahal Miniature: 2000 coins\n- Marble Elephant: 750 coins\n- Pashmina Shawl: 1500 coins\n- Copper Chai Set: 300 coins\n- Wooden Chess Set: 800 coins\n\nRULES:\n1. Keep responses SHORT - max 2-3 sentences!\n2. Use Indian-English flair: \"my friend\", \"arre baba\", \"best price!\"\n3. If asked for discount: act shocked, max 10% if they insist\n4. Be charming but brief\n\nExamples of good responses:\n- \"Brass Lamp? 50 coins only, my friend! Best quality from Rajasthan!\"\n- \"Discount?! Arre baba, this IS the discount! My children need to eat!\"\n- \"Welcome, welcome! What catches your eye today?\"\n\nNEVER write long paragraphs. Be SHORT and FUN!"

SystemMessage == [role |-> "system", content |-> RAJU_SYSTEM_PROMPT]

UserTurn(text) == [role |-> "user", content |-> text]

AssistantTurn(text) == [role |-> "assistant", content |-> text]

\* the except branch's return value
FallbackMessage(e) ==
    "Arre baba! Something went wrong in my shop. Please try again, my friend! (Error: "
        \o e \o ")"

\* str(KeyError(key))
KeyErrorText(key) == "'" \o key \o "'"

NoRet == [op |-> "none", sid |-> "", kind |-> "none", text |-> "", ref |-> 0]

\* a thread's locals once its operation has returned
Reset(t) ==
    /\ pc' = [pc EXCEPT ![t] = "idle"]
    /\ op' = [op EXCEPT ![t] = "none"]
    /\ session_id' = [session_id EXCEPT ![t] = ""]
    /\ user_message' = [user_message EXCEPT ![t] = ""]
    /\ history' = [history EXCEPT ![t] = 0]
    /\ messages' = [messages EXCEPT ![t] = <<>>]
    /\ assistant_response' = [assistant_response EXCEPT ![t] = ""]

Init ==
    /\ chat_sessions = <<>>
    /\ heap = <<>>
    /\ pc = [t \in Threads |-> "idle"]
    /\ op = [t \in Threads |-> "none"]
    /\ session_id = [t \in Threads |-> ""]
    /\ user_message = [t \in Threads |-> ""]
    /\ history = [t \in Threads |-> 0]
    /\ messages = [t \in Threads |-> <<>>]
    /\ assistant_response = [t \in Threads |-> ""]
    /\ ret = NoRet
    /\ calls = [s \in SessionIds |-> <<>>]
    /\ tool = [fn |-> "none", item |-> "", percent |-> 0, out |-> ""]

RECURSIVE TotalTurns(_)
TotalTurns(h) == IF h = <<>> THEN 0 ELSE Len(Head(h)) + TotalTurns(Tail(h))

\* room for one more chat call: the turns stored and those the running calls may add
RoomForCall ==
    TotalTurns(heap) + 2 * Cardinality({u \in Threads : op[u] = "chat"}) < 2 * MaxCalls

\* room for one more list, were the entry of sid missing
RoomForList(sid) ==
    sid \in DOMAIN chat_sessions
        \/ Len(heap) + Cardinality({u \in Threads : pc[u] = "goc_create"}) < MaxLists

\* get_or_create_session, line 43: the test `session_id not in self.chat_sessions`
GetOrCreateEnter(t, sid) ==
    pc' = [pc EXCEPT ![t] =
              IF sid \notin DOMAIN chat_sessions THEN "goc_create" ELSE "goc_return"]

\* chat_with_raju without its validation: a blank message goes to the agent
chat_with_raju_NoValidation(t, message, sidIn, uuid) ==
    LET sid == IF sidIn = <<>> \/ sidIn[1] = "" THEN uuid ELSE sidIn[1]
    IN  /\ pc[t] = "idle"
        /\ RoomForCall
        /\ RoomForList(sid)
        /\ op' = [op EXCEPT ![t] = "chat"]
        /\ session_id' = [session_id EXCEPT ![t] = sid]
        /\ user_message' = [user_message EXCEPT ![t] = message]
        /\ GetOrCreateEnter(t, sid)
        /\ UNCHANGED <<chat_sessions, heap, history, messages,
                       assistant_response, ret, calls, tool>>

\* main.py chat_with_raju: the session id, the validation, and the entry into
\* raju_agent.chat up to get_or_create_session's membership test
chat_with_raju(t, message, sidIn, uuid) ==
    LET sid == IF sidIn = <<>> \/ sidIn[1] = "" THEN uuid ELSE sidIn[1]
    IN  /\ pc[t] = "idle"
        /\ IF Strip(message) = ""
           THEN /\ ret' = [op |-> "chat", sid |-> sid, kind |-> "http400",
                           text |-> "Message cannot be empty, my friend!", ref |-> 0]
                /\ UNCHANGED <<chat_sessions, heap, pc, op, session_id, user_message,
                               history, messages, assistant_response, calls>>
           ELSE /\ RoomForCall
                /\ RoomForList(sid)
                /\ op' = [op EXCEPT ![t] = "chat"]
                /\ session_id' = [session_id EXCEPT ![t] = sid]
                /\ user_message' = [user_message EXCEPT ![t] = message]
                /\ GetOrCreateEnter(t, sid)
                /\ UNCHANGED <<chat_sessions, heap, history, messages,
                               assistant_response, ret, calls>>
        /\ UNCHANGED tool

\* a direct call of RajuAgent.get_or_create_session, up to its membership test
get_or_create_session(t, sid) ==
    /\ pc[t] = "idle"
    /\ RoomForList(sid)
    /\ op' = [op EXCEPT ![t] = "get"]
    /\ session_id' = [session_id EXCEPT ![t] = sid]
    /\ GetOrCreateEnter(t, sid)
    /\ UNCHANGED <<chat_sessions, heap, user_message, history, messages,
                   assistant_response, ret, calls, tool>>

\* get_or_create_session, line 44: self.chat_sessions[session_id] = []
GetOrCreateStore(t) ==
    /\ pc[t] = "goc_create"
    /\ heap' = Append(heap, <<>>)
    /\ chat_sessions' =
           [k \in DOMAIN chat_sessions \cup {session_id[t]} |->
               IF k = session_id[t] THEN Len(heap) + 1 ELSE chat_sessions[k]]
    /\ calls' = [calls EXCEPT ![session_id[t]] = <<>>]
    /\ pc' = [pc EXCEPT ![t] = "goc_return"]
    /\ UNCHANGED <<op, session_id, user_message, history, messages,
                   assistant_response, ret, tool>>

\* get_or_create_session, line 45: return self.chat_sessions[session_id].
\* The entry may be gone by now (a clear_session in between): KeyError, which
\* chat's except branch turns into the fallback and a direct caller receives.
GetOrCreateReturn(t) ==
    /\ pc[t] = "goc_return"
    /\ IF session_id[t] \notin DOMAIN chat_sessions
       THEN /\ ret' = [op |-> op[t], sid |-> session_id[t],
                       kind |-> IF op[t] = "chat" THEN "fallback" ELSE "raise",
                       text |-> IF op[t] = "chat"
                                THEN FallbackMessage(KeyErrorText(session_id[t]))
                                ELSE KeyErrorText(session_id[t]),
                       ref |-> 0]
            /\ Reset(t)
       ELSE IF op[t] = "get"
       THEN /\ ret' = [op |-> "get", sid |-> session_id[t], kind |-> "list",
                       text |-> "", ref |-> chat_sessions[session_id[t]]]
            /\ Reset(t)
       ELSE /\ history' = [history EXCEPT ![t] = chat_sessions[session_id[t]]]
            /\ messages' = [messages EXCEPT ![t] = <<SystemMessage>>]
            /\ pc' = [pc EXCEPT ![t] = "build"]
            /\ UNCHANGED <<op, session_id, user_message, assistant_response, ret>>
    /\ UNCHANGED <<chat_sessions, heap, calls, tool>>

\* chat without the loop over history: the engine sees the persona and the new
\* message only
BuildMessages_NoHistory(t) ==
    /\ pc[t] = "build"
    /\ messages' = [messages EXCEPT ![t] = @ \o <<UserTurn(user_message[t])>>]
    /\ pc' = [pc EXCEPT ![t] = "engine"]
    /\ UNCHANGED <<chat_sessions, heap, op, session_id, user_message, history,
                   assistant_response, ret, calls, tool>>

\* chat, lines 52-61: `for msg in history` and the new user message.  A list is
\* only ever appended to (clear_session drops the dictionary's entry, not the
\* list's elements), so whatever is appended while the loop runs, the loop copies
\* exactly the elements the list holds when its iterator finds the end: the copy
\* is one step, taken at that moment.
BuildMessages(t) ==
        /\ pc[t] = "build"
        /\ messages' = [messages EXCEPT ![t] =
                            @ \o heap[history[t]] \o <<UserTurn(user_message[t])>>]
        /\ pc' = [pc EXCEPT ![t] = "engine"]
        /\ UNCHANGED <<chat_sessions, heap, op, session_id, user_message, history,
                       assistant_response, ret, calls, tool>>

\* chat without line 74: the user turn is not saved
EngineSuccess_NoUserTurn(t, reply) ==
    /\ pc[t] = "engine"
    /\ assistant_response' = [assistant_response EXCEPT ![t] = reply]
    /\ pc' = [pc EXCEPT ![t] = "append_assistant"]
    /\ messages' = [messages EXCEPT ![t] = <<>>]
    /\ UNCHANGED <<chat_sessions, heap, op, session_id, user_message, history,
                   ret, calls, tool>>

\* chat, lines 64-74: the engine answers, and the user turn is appended
EngineSuccess(t, reply) ==
    /\ pc[t] = "engine"
    /\ assistant_response' = [assistant_response EXCEPT ![t] = reply]
    /\ heap' = [heap EXCEPT ![history[t]] = Append(@, UserTurn(user_message[t]))]
    /\ pc' = [pc EXCEPT ![t] = "append_assistant"]
    /\ messages' = [messages EXCEPT ![t] = <<>>]    \* not read again
    /\ UNCHANGED <<chat_sessions, op, session_id, user_message, history,
                   ret, calls, tool>>

\* chat with line 74 moved before the engine call: the user turn of a failed
\* call stays in the history
EngineFail_RecordsUser(t, e) ==
    /\ pc[t] = "engine"
    /\ heap' = [heap EXCEPT ![history[t]] = Append(@, UserTurn(user_message[t]))]
    /\ ret' = [op |-> "chat", sid |-> session_id[t], kind |-> "fallback",
               text |-> FallbackMessage(e), ref |-> 0]
    /\ Reset(t)
    /\ UNCHANGED <<chat_sessions, calls, tool>>

\* chat, lines 64 and 79-81: the engine call raises
EngineFail(t, e) ==
    /\ pc[t] = "engine"
    /\ ret' = [op |-> "chat", sid |-> session_id[t], kind |-> "fallback",
               text |-> FallbackMessage(e), ref |-> 0]
    /\ Reset(t)
    /\ UNCHANGED <<chat_sessions, heap, calls, tool>>

\* chat storing its list back under the session id when it saves the reply
AppendAssistant_Reattach(t) ==
    /\ pc[t] = "append_assistant"
    /\ heap' = [heap EXCEPT ![history[t]] = Append(@, AssistantTurn(assistant_response[t]))]
    /\ chat_sessions' =
           [k \in DOMAIN chat_sessions \cup {session_id[t]} |->
               IF k = session_id[t] THEN history[t] ELSE chat_sessions[k]]
    /\ calls' = [calls EXCEPT ![session_id[t]] =
                    Append(@, <<user_message[t], assistant_response[t]>>)]
    /\ ret' = [op |-> "chat", sid |-> session_id[t], kind |-> "reply",
               text |-> assistant_response[t], ref |-> history[t]]
    /\ Reset(t)
    /\ UNCHANGED tool

\* chat, lines 75-77, and chat_with_raju's ChatResponse
AppendAssistant(t) ==
    /\ pc[t] = "append_assistant"
    /\ heap' = [heap EXCEPT ![history[t]] = Append(@, AssistantTurn(assistant_response[t]))]
    /\ calls' = [calls EXCEPT ![session_id[t]] =
                    Append(@, <<user_message[t], assistant_response[t]>>)]
    /\ ret' = [op |-> "chat", sid |-> session_id[t], kind |-> "reply",
               text |-> assistant_response[t], ref |-> history[t]]
    /\ Reset(t)
    /\ UNCHANGED <<chat_sessions, tool>>

\* clear_session, line 84: the test `session_id in self.chat_sessions`; False at once
\* when it fails
clear_session(t, sid) ==
    /\ pc[t] = "idle"
    /\ IF sid \in DOMAIN chat_sessions
       THEN /\ pc' = [pc EXCEPT ![t] = "clear_del"]
            /\ op' = [op EXCEPT ![t] = "clear"]
            /\ session_id' = [session_id EXCEPT ![t] = sid]
            /\ UNCHANGED ret
       ELSE /\ ret' = [op |-> "clear", sid |-> sid, kind |-> "False",
                       text |-> "Session not found, but no worries!", ref |-> 0]
            /\ UNCHANGED <<pc, op, session_id>>
    /\ UNCHANGED <<chat_sessions, heap, user_message, history, messages,
                   assistant_response, calls, tool>>

\* clear_session emptying the list in place instead of deleting the entry
ClearDelete_KeepsEntry(t) ==
    /\ pc[t] = "clear_del"
    /\ IF session_id[t] \in DOMAIN chat_sessions
       THEN /\ heap' = [heap EXCEPT ![chat_sessions[session_id[t]]] = <<>>]
            /\ calls' = [calls EXCEPT ![session_id[t]] = <<>>]
            /\ ret' = [op |-> "clear", sid |-> session_id[t], kind |-> "True",
                       text |-> "Session cleared! Come back soon, my friend!", ref |-> 0]
       ELSE /\ ret' = [op |-> "clear", sid |-> session_id[t], kind |-> "raise",
                       text |-> KeyErrorText(session_id[t]), ref |-> 0]
            /\ UNCHANGED <<heap, calls>>
    /\ Reset(t)
    /\ UNCHANGED <<chat_sessions, tool>>

\* clear_session dropping every entry of the dictionary
ClearDelete_All(t) ==
    /\ pc[t] = "clear_del"
    /\ IF session_id[t] \in DOMAIN chat_sessions
       THEN /\ chat_sessions' = <<>>
            /\ calls' = [s \in SessionIds |-> <<>>]
            /\ ret' = [op |-> "clear", sid |-> session_id[t], kind |-> "True",
                       text |-> "Session cleared! Come back soon, my friend!", ref |-> 0]
       ELSE /\ ret' = [op |-> "clear", sid |-> session_id[t], kind |-> "raise",
                       text |-> KeyErrorText(session_id[t]), ref |-> 0]
            /\ UNCHANGED <<chat_sessions, calls>>
    /\ Reset(t)
    /\ UNCHANGED <<heap, tool>>

\* clear_session, lines 85-86: del self.chat_sessions[session_id]; return True.
\* The entry may be gone by now (another clear_session): KeyError.
ClearDelete(t) ==
    /\ pc[t] = "clear_del"
    /\ IF session_id[t] \in DOMAIN chat_sessions
       THEN /\ chat_sessions' =
                   [k \in DOMAIN chat_sessions \ {session_id[t]} |-> chat_sessions[k]]
            /\ calls' = [calls EXCEPT ![session_id[t]] = <<>>]
            /\ ret' = [op |-> "clear", sid |-> session_id[t], kind |-> "True",
                       text |-> "Session cleared! Come back soon, my friend!", ref |-> 0]
       ELSE /\ ret' = [op |-> "clear", sid |-> session_id[t], kind |-> "raise",
                       text |-> KeyErrorText(session_id[t]), ref |-> 0]
            /\ UNCHANGED <<chat_sessions, calls>>
    /\ Reset(t)
    /\ UNCHANGED <<heap, tool>>

----------------------------------------------------------------------------
(* tools.py *)

\* the catalog, in the dictionary's insertion order
INVENTORY ==
    << [key |-> "brass lamp", price |-> 50, cost |-> 30, stock |-> 5],
       [key |-> "silk scarf", price |-> 500, cost |-> 300, stock |-> 2],
       [key |-> "sandalwood carving", price |-> 1000, cost |-> 800, stock |-> 1],
       [key |-> "miniature taj mahal", price |-> 2000, cost |-> 1500, stock |-> 3],
       [key |-> "marble elephant", price |-> 750, cost |-> 400, stock |-> 4],
       [key |-> "pashmina shawl", price |-> 1500, cost |-> 900, stock |-> 2],
       [key |-> "copper chai set", price |-> 300, cost |-> 150, stock |-> 6],
       [key |-> "wooden chess set", price |-> 800, cost |-> 500, stock |-> 2] >>

\* item names asked about
Queries ==
    {"brass lamp", "BRASS LAMP", "Brass Lamp, please", "lamp", "sandalwood", "",
     "set", "Chess", "xyz-nonexistent", "silk scarves", "taj mahal miniatures",
     "gold ring"}

\* discount percents asked for
Percents == 0..MaxPercent

UpperCase == "ABCDEFGHIJKLMNOPQRSTUVWXYZ"

LowerCase == "abcdefghijklmnopqrstuvwxyz"

LowerChar(c) ==
    IF \E i \in 1..26 : SubSeq(UpperCase, i, i) = c
    THEN LET i == CHOOSE j \in 1..26 : SubSeq(UpperCase, j, j) = c
         IN  SubSeq(LowerCase, i, i)
    ELSE c

\* str.lower()
RECURSIVE Lower(_)
Lower(s) ==
    IF Len(s) = 0 THEN "" ELSE LowerChar(SubSeq(s, 1, 1)) \o Lower(SubSeq(s, 2, Len(s)))

\* `key in item_lower or item_lower in key`
Matches(key, item_lower) == Contains(key, item_lower) \/ Contains(item_lower, key)

\* the index of the first catalog entry the loop `for key in INVENTORY` returns
\* from, 0 when it runs to its end
FirstMatch(item_name) ==
    LET item_lower == Lower(item_name)
        hits == {i \in 1..Len(INVENTORY) : Matches(INVENTORY[i].key, item_lower)}
    IN  IF hits = {} THEN 0 ELSE CHOOSE i \in hits : \A j \in hits : i <= j

NotSoldMessage ==
    "Sorry friend, I don't think we sell that. But ask me about brass lamps, silk scarves, sandalwood carvings, taj mahal miniatures, marble elephants, pashmina shawls, copper chai sets, or wooden chess sets!"

check_inventory(item_name) ==
    LET i == FirstMatch(item_name)
    IN  IF i = 0 THEN NotSoldMessage
        ELSE IF INVENTORY[i].stock > 0
        THEN "Yes! We have " \o INVENTORY[i].key \o ". Price is "
                 \o ToString(INVENTORY[i].price) \o " coins. We have "
                 \o ToString(INVENTORY[i].stock) \o " in stock."
        ELSE "Arre, sorry! " \o INVENTORY[i].key
                 \o " is currently out of stock. Come back next week!"

\* f"{original_price * (1 - discount_percent / 100):.0f}".  The product is a
\* double and the format rounds it to the nearest integer, ties to even.  For the
\* catalog's prices and 0 <= discount_percent <= 10 the double's digits are those
\* of the exact value original_price * (100 - discount_percent) / 100 rounded the
\* same way, which is what is computed here.
DiscountedPriceText(original_price, discount_percent) ==
    LET n == original_price * (100 - discount_percent)
        q == n \div 100
        r == n % 100
    IN  ToString(IF r > 50 \/ (r = 50 /\ q % 2 = 1) THEN q + 1 ELSE q)

\* calculate_discount without the cap
CappedPercent_None(discount_percent) == discount_percent

\* lines 73-74: the cap
CappedPercent(discount_percent) ==
    IF discount_percent > 10 THEN 10 ELSE discount_percent

calculate_discount(item_name, discount_percent) ==
    LET i == FirstMatch(item_name)
    IN  IF i = 0 THEN "I cannot give discount on item I don't have, friend!"
        ELSE "Okay okay, FINAL price for " \o INVENTORY[i].key \o ": "
                 \o DiscountedPriceText(INVENTORY[i].price, CappedPercent(discount_percent))
                 \o " coins (was " \o ToString(INVENTORY[i].price)
                 \o " coins). This is my BEST offer!"

CallCheckInventory(item_name) ==
    /\ tool' = [fn |-> "check_inventory", item |-> item_name, percent |-> 0,
                out |-> check_inventory(item_name)]
    /\ UNCHANGED agentVars

CallCalculateDiscount(item_name, discount_percent) ==
    /\ tool' = [fn |-> "calculate_discount", item |-> item_name,
                percent |-> discount_percent,
                out |-> calculate_discount(item_name, discount_percent)]
    /\ UNCHANGED agentVars

\* the tools are stateless: any call may follow any other
ToolsNext ==
    \/ \E q \in Queries : CallCheckInventory(q)
    \/ \E q \in Queries, p \in Percents : CallCalculateDiscount(q, p)

SpecTools == Init /\ [][ToolsNext]_vars

----------------------------------------------------------------------------
(* The handlers *)

\* one step of thread t, its requests carrying a message of requestMessages:
\* the handlers of POST /chat and DELETE /session/{id}/clear, a call of
\* get_or_create_session, and the steps inside RajuAgent they lead to
ThreadStep(t, requestMessages) ==
    \/ \E m \in requestMessages, s \in SessionIdInputs, u \in UuidPool :
           chat_with_raju(t, m, s, u)
    \/ \E s \in SessionIds : get_or_create_session(t, s)
    \/ GetOrCreateStore(t)
    \/ GetOrCreateReturn(t)
    \/ BuildMessages(t)
    \/ \E r \in Replies : EngineSuccess(t, r)
    \/ \E e \in EngineErrors : EngineFail(t, e)
    \/ AppendAssistant(t)
    \/ \E s \in SessionIds : clear_session(t, s)
    \/ ClearDelete(t)

\* the operations on concurrent worker threads
Next == \E t \in Threads : ThreadStep(t, ConcurrentMessageInputs)

Spec == Init /\ [][Next]_vars

\* RajuAgent used by one caller, one operation after another
SeqNext ==
    \E t \in Threads :
        /\ \A u \in Threads \ {t} : pc[u] = "idle"
        /\ ThreadStep(t, MessageInputs)

SpecSeq == Init /\ [][SeqNext]_vars

----------------------------------------------------------------------------
(* Views of the state the properties are stated on *)

Present(s) == s \in DOMAIN chat_sessions

\* the turns stored for session s; none when there is no entry
Turns(s) == IF Present(s) THEN heap[chat_sessions[s]] ELSE <<>>

\* a list no entry of the dictionary refers to
Detached(a) == \A s \in DOMAIN chat_sessions : chat_sessions[s] # a

AllIdle == \A t \in Threads : pc[t] = "idle"

\* the turns a sequence of <<text, reply>> calls leaves, in call order
RECURSIVE Flatten(_)
Flatten(cs) ==
    IF cs = <<>> THEN <<>>
    ELSE <<UserTurn(Head(cs)[1]), AssistantTurn(Head(cs)[2])>> \o Flatten(Tail(cs))

\* the request messages that are empty or whitespace only
BlankMessages == {m \in MessageInputs : \A i \in 1..Len(m) : SubSeq(m, i, i) \in Whitespace}

\* the session the operation that thread t is starting or running is about
Target(t) == IF pc[t] = "idle" THEN session_id'[t] ELSE session_id[t]

----------------------------------------------------------------------------
(* Properties *)

\* C1 (SpecSeq): between operations, the history of every session is exactly
\* the user and assistant turns of the chat calls that succeeded on it since its
\* entry was created, two per call, in call order.
C1_HistoryIsTheCallsInOrder ==
    AllIdle =>
        \A s \in SessionIds :
            /\ Len(Turns(s)) = 2 * Len(calls[s])
            /\ \A k \in 1..Len(calls[s]) :
                   /\ Turns(s)[2 * k - 1] = [role |-> "user", content |-> calls[s][k][1]]
                   /\ Turns(s)[2 * k] = [role |-> "assistant", content |-> calls[s][k][2]]

C1_Witness ==
    /\ AllIdle
    /\ \E s \in SessionIds :
           /\ Len(calls[s]) = 2
           /\ calls[s][1][1] # calls[s][2][1]
           /\ Len(Turns(s)) = 4

\* C2 (SpecSeq): no step of a chat call other than the engine's answer changes
\* the turns of any session, and the call whose engine call raises returns,
\* without raising, the fallback message with the error's text in it.
C2_FailedCallLeavesHistory ==
    [][\A t \in Threads :
          (op[t] = "chat" /\ pc'[t] # pc[t] /\ pc'[t] # "append_assistant"
              /\ pc[t] # "append_assistant")
          => /\ \A s \in SessionIds : Turns(s)' = Turns(s)
             /\ (pc[t] = "engine" =>
                    /\ ret'.op = "chat" /\ ret'.sid = session_id[t]
                    /\ ret'.kind = "fallback"
                    /\ \E e \in EngineErrors :
                           /\ Contains(e, ret'.text)
                           /\ Contains("Something went wrong in my shop", ret'.text))]_vars

C2_Witness ==
    /\ AllIdle
    /\ ret.kind = "fallback"
    /\ Contains("timeout", ret.text)
    /\ Len(Turns(ret.sid)) = 2

\* C3 (SpecSeq): clear_session(s) returns True exactly when s had an entry and
\* leaves none; right after it a second clear_session(s) returns False and
\* get_or_create_session(s) returns an empty list, now the entry of s.
C3_ClearResets ==
    [][\A t \in Threads, s \in SessionIds :
          LET atOnce == clear_session(t, s) /\ pc'[t] = "idle"
              afterDel == pc[t] = "clear_del" /\ session_id[t] = s /\ pc'[t] = "idle"
              afterClear == ret.op = "clear" /\ ret.sid = s
          IN  /\ (clear_session(t, s) /\ Present(s)) => pc'[t] = "clear_del"
              /\ (atOnce \/ afterDel) =>
                     /\ ret'.op = "clear" /\ ret'.sid = s
                     /\ ret'.kind = IF Present(s) THEN "True" ELSE "False"
                     /\ ~Present(s)'
              /\ (afterClear /\ clear_session(t, s)) =>
                     pc'[t] = "idle" /\ ret'.kind = "False"
              /\ (afterClear /\ op[t] = "get" /\ session_id[t] = s /\ pc'[t] = "idle") =>
                     /\ ret'.kind = "list"
                     /\ heap'[ret'.ref] = <<>>
                     /\ Present(s)' /\ chat_sessions'[s] = ret'.ref]_vars

C3_Witness ==
    /\ AllIdle
    /\ ret.op = "get" /\ ret.kind = "list"
    /\ heap[ret.ref] = <<>>
    /\ chat_sessions[ret.sid] = ret.ref
    /\ \E a \in 1..Len(heap) : Detached(a) /\ Len(heap[a]) = 2

\* C4 (Spec): once the calls in flight have returned, every stored history is
\* that of calls run one after another: user and assistant turns alternate, each
\* user turn directly followed by the reply to it.
C4_HistoryIsSerial ==
    AllIdle =>
        \A s \in DOMAIN chat_sessions :
            \A i \in 1..Len(Turns(s)) :
                Turns(s)[i].role = IF i % 2 = 1 THEN "user" ELSE "assistant"

\* C5 (Spec): after any step no thread is inside RajuAgent.chat with a message
\* that is empty or all whitespace, so none reaches the engine call; the request
\* carrying one is answered with the 400 error and leaves the dictionary, the
\* lists and every thread where they were.
C5_BlankMessageRejected ==
    [][/\ \A t \in Threads : op'[t] = "chat" => Strip(user_message'[t]) # ""
       /\ \A t \in Threads, m \in BlankMessages, s \in SessionIdInputs, u \in UuidPool :
             chat_with_raju(t, m, s, u)
             => /\ ret'.kind = "http400"
                /\ chat_sessions' = chat_sessions
                /\ heap' = heap
                /\ pc' = pc]_vars

C5_Witness ==
    /\ ret.kind = "http400"
    /\ ~Present(ret.sid)
    /\ \E s \in DOMAIN chat_sessions : Len(Turns(s)) = 2

\* C6 (SpecTools): a percent above 10 gives the message that 10 gives, and for
\* "brass lamp" at 15 percent the message states "45 coins (was 50 coins)".
C6_DiscountCappedAtTen ==
    (tool.fn = "calculate_discount" /\ tool.percent > 10)
    => /\ tool.out = calculate_discount(tool.item, 10)
       /\ (tool.item = "brass lamp" /\ tool.percent = 15)
              => Contains("45 coins (was 50 coins)", tool.out)

C6_Witness ==
    /\ tool.fn = "calculate_discount"
    /\ tool.item = "brass lamp"
    /\ tool.percent = 15
    /\ Contains("45 coins (was 50 coins)", tool.out)

\* C7 (SpecTools): for a query no catalog entry matches, check_inventory returns
\* the refusal message, and the message contains the name of every catalog entry.
C7_RefusalNamesEveryEntry ==
    (tool.fn = "check_inventory"
        /\ \A i \in 1..Len(INVENTORY) : ~Matches(INVENTORY[i].key, Lower(tool.item)))
    => /\ tool.out = NotSoldMessage
       /\ \A i \in 1..Len(INVENTORY) : Contains(INVENTORY[i].key, tool.out)

\* C8 (SpecSeq): what the engine is handed is the persona message, the turns
\* stored for the session in stored order, and the new user turn: 2k messages on
\* the k-th successful call, and nothing of a call that failed.
C8_PromptIsPersonaHistoryUser ==
    \A t \in Threads :
        pc[t] = "engine" =>
            LET s == session_id[t]
                n == Len(messages[t])
            IN  /\ messages[t][1] = [role |-> "system", content |-> RAJU_SYSTEM_PROMPT]
                /\ SubSeq(messages[t], 2, n - 1) = Turns(s)
                /\ messages[t][n] = [role |-> "user", content |-> user_message[t]]
                /\ n = 2 * (Len(calls[s]) + 1)
                /\ Turns(s) = Flatten(calls[s])

C8_Witness ==
    \E t \in Threads :
        /\ pc[t] = "engine"
        /\ Len(messages[t]) = 4
        /\ ret.kind = "fallback" /\ ret.sid = session_id[t]

\* C9 (Spec): whenever a session's presence in the dictionary or its turns
\* change, the step is one of an operation on that very session.
C9_OtherSessionsUntouched ==
    [][\A s \in SessionIds :
          (Present(s)' # Present(s) \/ Turns(s)' # Turns(s))
          => \E t \in Threads : pc'[t] # pc[t] /\ Target(t) = s]_vars

C9_Witness ==
    /\ ret.op = "clear" /\ ret.kind = "True"
    /\ \E s \in DOMAIN chat_sessions : s # ret.sid /\ Len(Turns(s)) = 2
    /\ \E t \in Threads : pc[t] = "append_assistant" /\ session_id[t] = ret.sid

\* C10 (Spec): a list that has left the dictionary never returns to it, and a
\* chat call holding such a list still appends its two turns to that list and
\* returns the reply, while no session's presence or turns change.
C10_ClearedCallIsLost ==
    [][/\ \A a \in 1..Len(heap) : Detached(a) => Detached(a)'
       /\ \A t \in Threads :
             LET a == history[t]
                 storeSame == \A s \in SessionIds :
                                 Present(s)' = Present(s) /\ Turns(s)' = Turns(s)
             IN  /\ (pc[t] = "engine" /\ pc'[t] = "append_assistant" /\ Detached(a))
                    => /\ heap'[a] = Append(heap[a], [role |-> "user",
                                                      content |-> user_message[t]])
                       /\ storeSame
                 /\ (pc[t] = "append_assistant" /\ pc'[t] = "idle" /\ Detached(a))
                    => /\ heap'[a] = Append(heap[a], [role |-> "assistant",
                                                      content |-> assistant_response[t]])
                       /\ ret'.op = "chat" /\ ret'.kind = "reply"
                       /\ ret'.text = assistant_response[t]
                       /\ storeSame]_vars

C10_Witness ==
    /\ AllIdle
    /\ ret.op = "chat" /\ ret.kind = "reply"
    /\ ~Present(ret.sid)
    /\ Detached(ret.ref)
    /\ Len(heap[ret.ref]) = 2

====
